---- MODULE Spec2Model ----
(***************************************************************************)
(* GammaUnet (src/model.py): the forward computation graph of the          *)
(* low-light restoration network, modelled at the level of tensor shapes,  *)
(* element index mappings and per-channel element values.                  *)
(*                                                                         *)
(* A tensor is a record [ok, shape, val, err, at]:                         *)
(*   shape  the torch.Size, a sequence of dimensions;                      *)
(*   val    one value per channel (the image is constant over space in     *)
(*          each channel), in fixed point with Q units per 1.0; after a    *)
(*          Denoiser it holds the term naming the network, its parameters  *)
(*          and its input;                                                 *)
(*   ok     FALSE when the operation raised; err is the exception and at   *)
(*          the source expression that raised it.  Every operation passes  *)
(*          a raised exception on, as Python unwinds the frame.            *)
(***************************************************************************)
EXTENDS Integers, Sequences, FiniteSets, TLC

VARIABLES built, ctor, pc, x, loc, out

vars == <<built, ctor, pc, x, loc, out>>

\* ---------------------------------------------------------------- bounds

\* largest height and width of an input
MaxDim == 16
\* largest batch size of an input
MaxBatch == 2
\* largest channel count of an input handed to GammaUnet.forward
MaxChannels == 5
\* largest height and width of an input whose values are followed
ValueDim == 8
\* largest channel count of an input whose values are followed
ValueChannels == 3
\* largest filter count of a GammaUnet whose values are followed
MaxFilters == 4
\* largest filter count of a GammaUnet or Denoiser whose shapes are followed
MaxShapeFilters == 8
\* largest embed size / filter count tried by a constructor
MaxEmbed == 33
\* largest head count tried when constructing a MultiHeadSelfAttention
MaxHeads == 4
\* checkpoints that load_state_dict can load
MaxCheckpoint == 1
\* largest kernel size a Denoiser is constructed with
MaxKernel == 7
\* largest channel count of an input handed to Denoiser.forward
MaxDenoiserChannels == 2
\* largest height and width of a feature map whose elements are followed
MaxTokensSide == 3
\* largest embed size of a feature map whose elements are followed
MaxAttnEmbed == 3
\* largest magnitude of a weight and of the bias of the final convolution
MaxWeight == 40
MaxBias == 18

\* ------------------------------------------------------- tensors, errors

None == [cls |-> "None"]

T(shape, val) == [ok |-> TRUE, shape |-> shape, val |-> val, err |-> "", at |-> ""]

Raise(err, at) == [ok |-> FALSE, shape |-> <<>>, val |-> <<>>, err |-> err, at |-> at]

RECURSIVE Prod(_)
Prod(s) == IF s = <<>> THEN 1 ELSE Head(s) * Prod(Tail(s))

Max2(a, b) == IF a >= b THEN a ELSE b

\* F(v) with v evaluated once, as Python binds a value to a name
Bind(v, F(_)) == CHOOSE r \in {F(w) : w \in {v}} : TRUE

Bind2(v1, v2, F(_, _)) == CHOOSE r \in {F(w1, w2) : w1 \in {v1}, w2 \in {v2}} : TRUE

\* torch broadcasting of two sizes of the same rank: equal, or one of them 1
Broadcastable(s, u) ==
    /\ Len(s) = Len(u)
    /\ \A i \in 1..Len(s) : s[i] = u[i] \/ s[i] = 1 \/ u[i] = 1

\* a + b on tensors (the skip additions, x + x)
TensorAdd(t1, t2, at) ==
    Bind2(t1, t2, LAMBDA a, b :
        IF ~a.ok THEN a
        ELSE IF ~b.ok THEN b
        ELSE IF ~Broadcastable(a.shape, b.shape) THEN Raise("RuntimeError", at)
        ELSE T([i \in 1..Len(a.shape) |-> Max2(a.shape[i], b.shape[i])], <<>>))

\* a variant of ConvOut: the padding is left out
ConvOutUnpadded(n, kernel_size, stride, padding) ==
    ((n - kernel_size) \div stride) + 1

\* output length of a convolution along one axis
ConvOut(n, kernel_size, stride, padding) ==
    ((n + 2 * padding - kernel_size) \div stride) + 1

\* nn.Conv2d(cin, cout, kernel_size, stride, padding) applied to t0
Conv2d(t0, cin, cout, kernel_size, stride, padding, at) ==
    Bind(t0, LAMBDA t :
        IF ~t.ok THEN t
        ELSE IF Len(t.shape) # 4 \/ t.shape[2] # cin THEN Raise("RuntimeError", at)
        ELSE IF \/ t.shape[3] + 2 * padding < kernel_size
                \/ t.shape[4] + 2 * padding < kernel_size
             THEN Raise("RuntimeError", at)
        ELSE T(<<t.shape[1], cout,
                 ConvOut(t.shape[3], kernel_size, stride, padding),
                 ConvOut(t.shape[4], kernel_size, stride, padding)>>, <<>>))

\* nn.Upsample(scale_factor=2, mode='nearest')
Upsample(t0) ==
    Bind(t0, LAMBDA t :
        IF ~t.ok THEN t
        ELSE T(<<t.shape[1], t.shape[2], 2 * t.shape[3], 2 * t.shape[4]>>, <<>>))

\* the size Tensor.reshape(target) gives n elements: target may hold one -1
ReshapeSize(n, target, at) ==
    LET known == Prod([i \in 1..Len(target) |->
                         IF target[i] = -1 THEN 1 ELSE target[i]])
        free  == {i \in 1..Len(target) : target[i] = -1}
    IN  IF free = {}
        THEN IF known = n THEN T(target, <<>>) ELSE Raise("RuntimeError", at)
        ELSE IF known = 0 \/ n % known # 0 THEN Raise("RuntimeError", at)
        ELSE T([i \in 1..Len(target) |->
                   IF target[i] = -1 THEN n \div known ELSE target[i]], <<>>)

\* Tensor.reshape(target)
Reshape(t0, target, at) ==
    Bind(t0, LAMBDA t : IF ~t.ok THEN t ELSE ReshapeSize(Prod(t.shape), target, at))

\* Tensor.permute(dims), dims counted from 0 as in torch
Permute(t0, dims) ==
    Bind(t0, LAMBDA t :
        IF ~t.ok THEN t
        ELSE T([i \in 1..Len(dims) |-> t.shape[dims[i] + 1]], <<>>))

\* nn.Linear(in_features, out_features) applied to the last axis of t0
Linear(t0, in_features, out_features, at) ==
    Bind(t0, LAMBDA t :
        IF ~t.ok THEN t
        ELSE IF t.shape[Len(t.shape)] # in_features THEN Raise("RuntimeError", at)
        ELSE T([i \in 1..Len(t.shape) |->
                   IF i = Len(t.shape) THEN out_features ELSE t.shape[i]], <<>>))

\* torch.matmul(a, b) of two rank-4 tensors with equal batch axes
MatMul(t1, t2, at) ==
    Bind2(t1, t2, LAMBDA a, b :
        IF ~a.ok THEN a
        ELSE IF ~b.ok THEN b
        ELSE IF a.shape[1] # b.shape[1] \/ a.shape[2] # b.shape[2] \/ a.shape[4] # b.shape[3]
             THEN Raise("RuntimeError", at)
        ELSE T(<<a.shape[1], a.shape[2], a.shape[3], b.shape[4]>>, <<>>))

\* ------------------------------------------------ MultiHeadSelfAttention

\* the outcome of a constructor call: the object, or the exception raised
Built(obj) == [ok |-> TRUE, obj |-> obj, err |-> ""]

CtorRaise(err) == [ok |-> FALSE, obj |-> None, err |-> err]

\* the head count the Denoiser passes to its bottleneck
BottleneckHeads == 4

\* a variant of AssertDivisible: the assertion is missing
AssertSkipped(embed_size, num_heads) == TRUE

\* assert embed_size % num_heads == 0
AssertDivisible(embed_size, num_heads) == embed_size % num_heads = 0

\* MultiHeadSelfAttention.__init__; params 0 is the random initialisation
MultiHeadSelfAttention_init(embed_size, num_heads) ==
    IF ~AssertDivisible(embed_size, num_heads) THEN CtorRaise("AssertionError")
    ELSE Built([cls        |-> "MultiHeadSelfAttention",
                embed_size |-> embed_size,
                num_heads  |-> num_heads,
                head_dim   |-> embed_size \div num_heads,
                params     |-> 0])

\* MultiHeadSelfAttention.split_heads
split_heads(self, t, batch_size) ==
    Permute(Reshape(t, <<batch_size, -1, self.num_heads, self.head_dim>>, "split_heads"),
            <<0, 2, 1, 3>>)

\* MultiHeadSelfAttention.forward from the flattened sequence on
attend(self, seq, batch_size, height, width) ==
    LET query      == split_heads(self, Linear(seq, self.embed_size, self.embed_size, "query_dense"), batch_size)
        key        == split_heads(self, Linear(seq, self.embed_size, self.embed_size, "key_dense"), batch_size)
        value      == split_heads(self, Linear(seq, self.embed_size, self.embed_size, "value_dense"), batch_size)
        attention_weights == MatMul(query, Permute(key, <<0, 1, 3, 2>>), "matmul(query, key)")
        attention  == Reshape(Permute(MatMul(attention_weights, value, "matmul(attention_weights, value)"),
                                      <<0, 2, 1, 3>>),
                              <<batch_size, -1, self.embed_size>>, "attention.reshape")
        output     == Linear(attention, self.embed_size, self.embed_size, "combine_heads")
    IN  Permute(Reshape(output, <<batch_size, height, width, self.embed_size>>, "output.reshape"),
                <<0, 3, 1, 2>>)

\* MultiHeadSelfAttention.forward
MultiHeadSelfAttention_forward(self, t0) ==
    Bind(t0, LAMBDA t :
        IF ~t.ok THEN t
        ELSE IF Len(t.shape) # 4 THEN Raise("ValueError", "x.size()")
        ELSE Bind(Reshape(t, <<t.shape[1], t.shape[3] * t.shape[4], -1>>, "x.reshape"),
                  LAMBDA seq : attend(self, seq, t.shape[1], t.shape[3], t.shape[4])))

\* ---------------------------------------------------------------- Denoiser

\* the default of Denoiser.__init__'s kernel_size
DefaultKernel == 3

\* the padding every convolution of the Denoiser is built with
ConvPadding == 1

\* Denoiser.__init__; name is the attribute the object is bound to
Denoiser_init(name, num_filters, kernel_size) ==
    LET bottleneck == MultiHeadSelfAttention_init(num_filters, BottleneckHeads)
    IN  IF ~bottleneck.ok THEN CtorRaise(bottleneck.err)
        ELSE Built([cls         |-> "Denoiser",
                    name        |-> name,
                    num_filters |-> num_filters,
                    kernel_size |-> kernel_size,
                    bottleneck  |-> bottleneck.obj,
                    params      |-> 0])

\* the value a Denoiser returns: its network, with its parameters, on its input
DenoiserTerm(self, t) ==
    [net |-> self.name, params |-> self.params,
     attention |-> self.bottleneck.params, input |-> t.val]

\* Denoiser.forward, every tensor it binds, in the order it binds them
Denoiser_trace(self, t) ==
    LET F == self.num_filters
        k == self.kernel_size
    IN
    Bind(Conv2d(t, 1, F, k, 1, ConvPadding, "conv1"), LAMBDA x1 :
    Bind(Conv2d(x1, F, F, k, 2, ConvPadding, "conv2"), LAMBDA x2 :
    Bind(Conv2d(x2, F, F, k, 2, ConvPadding, "conv3"), LAMBDA x3 :
    Bind(Conv2d(x3, F, F, k, 2, ConvPadding, "conv4"), LAMBDA x4 :
    Bind(MultiHeadSelfAttention_forward(self.bottleneck, x4), LAMBDA xb :
    Bind(Upsample(xb), LAMBDA u4 :
    Bind(Upsample(TensorAdd(u4, x3, "x + x3")), LAMBDA u3 :
    Bind(Upsample(TensorAdd(u3, x2, "x + x2")), LAMBDA u2 :
    Bind(TensorAdd(u2, x1, "x + x1"), LAMBDA s1 :
    Bind(Conv2d(s1, F, 1, k, 1, ConvPadding, "res_layer"), LAMBDA r :
    Bind(Conv2d(TensorAdd(r, r, "x + x"), 1, 1, k, 1, ConvPadding, "output_layer"), LAMBDA o :
        [x1 |-> x1, x2 |-> x2, x3 |-> x3, x4 |-> x4, bottleneck |-> xb,
         up4 |-> u4, up3 |-> u3, up2 |-> u2, skip1 |-> s1, res |-> r, output |-> o]
    )))))))))))

\* Denoiser.forward: torch.tanh(self.output_layer(x + x))
Denoiser_forward(self, t0) ==
    Bind(t0, LAMBDA t :
        Bind(Denoiser_trace(self, t).output, LAMBDA o :
            IF o.ok THEN T(o.shape, <<DenoiserTerm(self, t)>>) ELSE o))

\* --------------------------------------------------------------- GammaUnet

\* fixed point: Q units per 1.0
Q == 64

\* the pixel values an input channel takes: PixelLevels evenly spaced levels of [0,1]
PixelLevels == 2

Levels == {(i * Q) \div (PixelLevels - 1) : i \in 0..(PixelLevels - 1)}

Abs(v) == IF v < 0 THEN 0 - v ELSE v

Sign(v) == IF v > 0 THEN 1 ELSE IF v < 0 THEN 0 - 1 ELSE 0

\* the largest y in 0..hi with y^e <= n
IRoot(n0, e, hi) ==
    Bind(n0, LAMBDA n : CHOOSE y \in 0..hi : y ^ e <= n /\ (y = hi \/ (y + 1) ^ e > n))

\* c/10000 * v, coefficients kept to four decimals
Mix(c1, v1, c2, v2, c3, v3) == (c1 * v1 + c2 * v2 + c3 * v3) \div 10000

\* sign(v) * (|v| + eps) ^ (1/3) with eps = 1e-6, which is Q^3 / 10^6 units of the cube
SignedCbrt(v0) ==
    Bind(v0, LAMBDA v : Sign(v) * IRoot(Abs(v) * Q * Q + (Q * Q * Q) \div 1000000, 3, 2 * Q))

\* GammaUnet._rgb_to_oklab on the three values of one pixel
oklab(r, g, b) ==
    Bind(SignedCbrt(Mix(4122, r, 5363, g, 514, b)), LAMBDA l_ :
    Bind(SignedCbrt(Mix(2119, r, 6807, g, 1074, b)), LAMBDA m_ :
    Bind(SignedCbrt(Mix(883, r, 2817, g, 6300, b)), LAMBDA s_ :
        <<Mix(2105, l_, 7936, m_, 0 - 41, s_),
          Mix(19780, l_, 0 - 24286, m_, 4506, s_),
          Mix(259, l_, 7828, m_, 0 - 8087, s_)>>)))

\* GammaUnet._rgb_to_oklab: image[:, 0], image[:, 1], image[:, 2] are read
rgb_to_oklab(image0) ==
    Bind(image0, LAMBDA image :
        IF ~image.ok THEN image
        ELSE IF image.shape[2] < 3 THEN Raise("IndexError", "image[:, i, :, :]")
        ELSE T(<<image.shape[1], 3, image.shape[3], image.shape[4]>>,
               oklab(image.val[1], image.val[2], image.val[3])))

\* self.gamma = 0.4, as the fraction GammaNum / GammaDen
GammaNum == 2

GammaDen == 5

\* torch.clamp(v, 0, 1)
Clamp01(v) == IF v < 0 THEN 0 ELSE IF v > Q THEN Q ELSE v

\* GammaUnet._gamma_correction on one value: (clamp(v, 0, 1) + 1e-8) ^ gamma;
\* eps = 1e-8 is Q / 10^8 units
GammaValue(v, gamma) ==
    IRoot(((Clamp01(v) + Q \div 100000000) ^ gamma[1]) * (Q ^ (gamma[2] - gamma[1])),
          gamma[2], Q)

\* GammaUnet._gamma_correction
gamma_correction(image0, gamma) ==
    Bind(image0, LAMBDA image :
        IF ~image.ok THEN image
        ELSE T(image.shape, [i \in 1..Len(image.val) |-> GammaValue(image.val[i], gamma)]))

\* torch.split(ycbcr, 1, dim=1)[k-1]
SplitChannel(t0, k) ==
    Bind(t0, LAMBDA t :
        IF ~t.ok THEN t
        ELSE T(<<t.shape[1], 1, t.shape[3], t.shape[4]>>, <<t.val[k]>>))

\* a variant of forward_channels: every channel is gamma corrected
forward_channels_all(self, ycbcr) ==
    [y  |-> gamma_correction(SplitChannel(ycbcr, 1), self.gamma),
     cb |-> gamma_correction(SplitChannel(ycbcr, 2), self.gamma),
     cr |-> gamma_correction(SplitChannel(ycbcr, 3), self.gamma)]

\* GammaUnet.forward, the split and the gamma correction of y and cb
forward_channels(self, ycbcr) ==
    [y  |-> gamma_correction(SplitChannel(ycbcr, 1), self.gamma),
     cb |-> gamma_correction(SplitChannel(ycbcr, 2), self.gamma),
     cr |-> SplitChannel(ycbcr, 3)]

\* torch.cat([a, b, c], dim=1)
Cat3(t1, t2, t3) ==
    Bind2(t1, t2, LAMBDA a, b : Bind(t3, LAMBDA c :
        IF ~a.ok THEN a
        ELSE IF ~b.ok THEN b
        ELSE IF ~c.ok THEN c
        ELSE IF \E i \in {1, 3, 4} : a.shape[i] # b.shape[i] \/ a.shape[i] # c.shape[i]
             THEN Raise("RuntimeError", "torch.cat")
        ELSE T(<<a.shape[1], a.shape[2] + b.shape[2] + c.shape[2], a.shape[3], a.shape[4]>>,
               a.val \o b.val \o c.val)))

\* GammaUnet.forward from the concatenation on:
\* torch.sigmoid(self.final_conv(torch.cat([...], dim=1)))
forward_fuse(self, y_denoised, cb_denoised, cr_denoised) ==
    Bind(Cat3(y_denoised, cb_denoised, cr_denoised), LAMBDA combined :
    Bind(Conv2d(combined, 3, 3, DefaultKernel, 1, ConvPadding, "final_conv"), LAMBDA output :
        IF output.ok
        THEN T(output.shape,
               <<[op |-> "sigmoid(final_conv)", params |-> self.params, input |-> combined.val]>>)
        ELSE output))

\* GammaUnet.__init__
GammaUnet_init(num_filters) ==
    LET dy  == Denoiser_init("denoiser_y", num_filters, DefaultKernel)
        dcb == Denoiser_init("denoiser_cb", num_filters, DefaultKernel)
        dcr == Denoiser_init("denoiser_cr", num_filters, DefaultKernel)
    IN  IF ~dy.ok THEN CtorRaise(dy.err)
        ELSE IF ~dcb.ok THEN CtorRaise(dcb.err)
        ELSE IF ~dcr.ok THEN CtorRaise(dcr.err)
        ELSE Built([cls |-> "GammaUnet",
                    denoiser_y  |-> dy.obj,
                    denoiser_cb |-> dcb.obj,
                    denoiser_cr |-> dcr.obj,
                    gamma  |-> <<GammaNum, GammaDen>>,
                    params |-> 0])

\* GammaUnet.forward as the function of (parameters, input) the source text
\* computes, its statements taken in the order they are written
GammaUnet_forward(self, image) ==
    Bind(rgb_to_oklab(image), LAMBDA ycbcr :
    Bind(forward_channels(self, ycbcr), LAMBDA ch :
    Bind(Denoiser_forward(self.denoiser_y, ch.y), LAMBDA y_denoised :
    Bind(Denoiser_forward(self.denoiser_cb, ch.cb), LAMBDA cb_denoised :
    Bind(Denoiser_forward(self.denoiser_cr, ch.cr), LAMBDA cr_denoised :
        forward_fuse(self, y_denoised, cb_denoised, cr_denoised))))))

\* ------------------------------------------------------------ the machine

\* a name that is not bound (a local before its assignment, no result yet)
Unset == [ok |-> FALSE, shape |-> <<>>, val |-> <<>>, err |-> "unset", at |-> ""]

IsSet(t) == t.err # "unset"

\* the locals of GammaUnet.forward
EmptyFrame ==
    [ycbcr |-> Unset, y |-> Unset, cb |-> Unset, cr |-> Unset,
     y_denoised |-> Unset, cb_denoised |-> Unset, cr_denoised |-> Unset]

NoCtor == [cls |-> "", embed_size |-> 0, num_heads |-> 0, kernel_size |-> 0,
           ok |-> FALSE, err |-> ""]

Attempt(cls, embed_size, num_heads, kernel_size, res) ==
    [cls |-> cls, embed_size |-> embed_size, num_heads |-> num_heads,
     kernel_size |-> kernel_size, ok |-> res.ok, err |-> res.err]

Init ==
    /\ built = None
    /\ ctor = NoCtor
    /\ pc = "idle"
    /\ x = Unset
    /\ loc = EmptyFrame
    /\ out = Unset

\* an input batch of shape (B, C, H, W), every channel constant over space
Image(b, c, h, w, v) == T(<<b, c, h, w>>, [i \in 1..c |-> IF i <= 3 THEN v[i] ELSE Q])

\* model = GammaUnet(num_filters)
NewGammaUnet(filters) ==
    /\ built = None
    /\ pc = "idle"
    /\ \E f \in filters :
         \E res \in {GammaUnet_init(f)} :
             /\ ctor' = Attempt("GammaUnet", f, BottleneckHeads, DefaultKernel, res)
             /\ built' = res.obj
    /\ UNCHANGED <<pc, x, loc, out>>

\* every parameter tensor of the module tree takes the checkpoint's value
load_state_dict(self, n) ==
    [self EXCEPT !.params = n,
                 !.denoiser_y.params = n,  !.denoiser_y.bottleneck.params = n,
                 !.denoiser_cb.params = n, !.denoiser_cb.bottleneck.params = n,
                 !.denoiser_cr.params = n, !.denoiser_cr.bottleneck.params = n]

\* model.load_state_dict(torch.load(weights_path)) (src/test.py)
LoadCheckpoint ==
    /\ built.cls = "GammaUnet"
    /\ pc = "idle"
    /\ \E n \in 1..MaxCheckpoint :
         /\ built.params # n
         /\ built' = load_state_dict(built, n)
    /\ UNCHANGED <<ctor, pc, x, loc, out>>

\* a variant of SelfAfterForward: forward overwrites a parameter of the module
SelfOverwritten(self, result) == [self EXCEPT !.params = 0 - 1]

\* the module after forward has run: forward assigns no attribute of self
SelfAfterForward(self, result) == self

\* the call raised: the frame is unwound, the caller gets the exception
Raised(e) ==
    /\ out' = e
    /\ loc' = EmptyFrame
    /\ pc' = "returned"
    /\ built' = SelfAfterForward(built, e)

\* model(x) is entered: the colour conversion, the split, the gamma correction
Call(batches, channels, dims, levels) ==
    /\ built.cls = "GammaUnet"
    /\ pc = "idle"
    /\ \E b \in batches, c \in channels, h \in dims, w \in dims,
          v1 \in levels, v2 \in levels, v3 \in levels :
         \E image \in {Image(b, c, h, w, <<v1, v2, v3>>)} :
         \E ycbcr \in {rgb_to_oklab(image)} :
         \E ch \in {forward_channels(built, ycbcr)} :
             /\ x' = image
             /\ IF ~ycbcr.ok THEN Raised(ycbcr)
                ELSE /\ loc' = [EmptyFrame EXCEPT !.ycbcr = ycbcr, !.y = ch.y,
                                                  !.cb = ch.cb, !.cr = ch.cr]
                     /\ pc' = "denoise"
                     /\ out' = Unset
                     /\ built' = built
    /\ UNCHANGED ctor

\* a variant of BranchInput: every branch reads the y channel
BranchInputShared(frame, k) == frame.y

\* the channel branch k reads
BranchInput(frame, k) ==
    IF k = "y" THEN frame.y ELSE IF k = "cb" THEN frame.cb ELSE frame.cr

\* the Denoiser branch k runs
BranchModule(self, k) ==
    IF k = "y" THEN self.denoiser_y
    ELSE IF k = "cb" THEN self.denoiser_cb ELSE self.denoiser_cr

BranchOutput(frame, k) ==
    IF k = "y" THEN frame.y_denoised
    ELSE IF k = "cb" THEN frame.cb_denoised ELSE frame.cr_denoised

\* one of the three branches is evaluated; the source runs y, cb, cr in
\* this order, the data-flow graph leaves the order open
Denoise(k) ==
    /\ pc = "denoise"
    /\ ~IsSet(BranchOutput(loc, k))
    /\ \E d \in {Denoiser_forward(BranchModule(built, k), BranchInput(loc, k))} :
           IF ~d.ok THEN Raised(d)
           ELSE /\ loc' = IF k = "y" THEN [loc EXCEPT !.y_denoised = d]
                          ELSE IF k = "cb" THEN [loc EXCEPT !.cb_denoised = d]
                          ELSE [loc EXCEPT !.cr_denoised = d]
                /\ UNCHANGED <<pc, out, built>>
    /\ UNCHANGED <<ctor, x>>

DenoiseY == Denoise("y")

DenoiseCb == Denoise("cb")

DenoiseCr == Denoise("cr")

\* the concatenation, the final convolution, the sigmoid, the return
Fuse ==
    /\ pc = "denoise"
    /\ IsSet(loc.y_denoised) /\ IsSet(loc.cb_denoised) /\ IsSet(loc.cr_denoised)
    /\ \E res \in {forward_fuse(built, loc.y_denoised, loc.cb_denoised, loc.cr_denoised)} :
           /\ out' = res
           /\ built' = SelfAfterForward(built, res)
    /\ loc' = EmptyFrame
    /\ pc' = "returned"
    /\ UNCHANGED <<ctor, x>>

\* the caller is done with the input and the result of the call
Drop ==
    /\ pc = "returned"
    /\ pc' = "idle"
    /\ x' = Unset
    /\ out' = Unset
    /\ UNCHANGED <<built, ctor, loc>>

\* the values of the graph: one batch size, up to ValueChannels channels,
\* sides up to ValueDim
Next ==
    \/ NewGammaUnet(1..MaxFilters)
    \/ LoadCheckpoint
    \/ Call({1}, 1..ValueChannels, 1..ValueDim, Levels)
    \/ DenoiseY
    \/ DenoiseCb
    \/ DenoiseCr
    \/ Fuse
    \/ Drop

Spec == Init /\ [][Next]_vars

\* the shapes of the graph: one pixel value, sides up to MaxDim
NextShape ==
    \/ NewGammaUnet(1..MaxShapeFilters)
    \/ Call(1..MaxBatch, 1..MaxChannels, 1..MaxDim, {Q})
    \/ DenoiseY
    \/ DenoiseCb
    \/ DenoiseCr
    \/ Fuse
    \/ Drop

SpecShape == Init /\ [][NextShape]_vars

\* -------------------------------------------------- a Denoiser on its own

KernelSizes == {k \in 1..MaxKernel : k % 2 = 1}

\* denoiser = Denoiser(num_filters, kernel_size)
NewDenoiser(filters, kernels) ==
    /\ built = None
    /\ pc = "idle"
    /\ \E f \in filters, k \in kernels :
         \E res \in {Denoiser_init("denoiser", f, k)} :
             /\ ctor' = Attempt("Denoiser", f, BottleneckHeads, k, res)
             /\ built' = res.obj
    /\ UNCHANGED <<pc, x, loc, out>>

\* denoiser(x) on a batch of shape (B, C, H, W)
CallDenoiser ==
    /\ built.cls = "Denoiser"
    /\ pc = "idle"
    /\ \E b \in 1..MaxBatch, c \in 1..MaxDenoiserChannels, h \in 1..MaxDim, w \in 1..MaxDim :
         \E image \in {T(<<b, c, h, w>>, [i \in 1..c |-> Q])} :
             /\ x' = image
             /\ out' = Denoiser_forward(built, image)
    /\ pc' = "returned"
    /\ UNCHANGED <<built, ctor, loc>>

NextDenoiser ==
    \/ NewDenoiser(1..MaxShapeFilters, KernelSizes)
    \/ CallDenoiser
    \/ Drop

SpecDenoiser == Init /\ [][NextDenoiser]_vars

\* ------------------------------------------------------- the constructors

\* attention = MultiHeadSelfAttention(embed_size, num_heads)
NewMultiHeadSelfAttention ==
    /\ built = None
    /\ pc = "idle"
    /\ \E e \in 1..MaxEmbed, h \in 1..MaxHeads :
         \E res \in {MultiHeadSelfAttention_init(e, h)} :
             /\ ctor' = Attempt("MultiHeadSelfAttention", e, h, 0, res)
             /\ built' = res.obj
    /\ UNCHANGED <<pc, x, loc, out>>

\* the first call of a constructed module, on an input of the shape it is made for
FirstForward ==
    /\ built # None
    /\ pc = "idle"
    /\ \/ /\ built.cls = "MultiHeadSelfAttention"
          /\ \E h \in 1..MaxTokensSide, w \in 1..MaxTokensSide :
               \E image \in {T(<<1, built.embed_size, h, w>>, <<>>)} :
                   /\ x' = image
                   /\ out' = MultiHeadSelfAttention_forward(built, image)
       \/ /\ built.cls = "Denoiser"
          /\ \E image \in {T(<<1, 1, 8, 8>>, <<Q>>)} :
               /\ x' = image
               /\ out' = Denoiser_forward(built, image)
       \/ /\ built.cls = "GammaUnet"
          /\ \E image \in {T(<<1, 3, 8, 8>>, <<Q, Q, Q>>)} :
               /\ x' = image
               /\ out' = GammaUnet_forward(built, image)
    /\ pc' = "returned"
    /\ UNCHANGED <<built, ctor, loc>>

NextCtor ==
    \/ NewMultiHeadSelfAttention
    \/ NewDenoiser(1..MaxEmbed, {DefaultKernel})
    \/ NewGammaUnet(1..MaxEmbed)
    \/ FirstForward

SpecCtor == Init /\ [][NextCtor]_vars

\* ------------------------------------- the flattening of the attention block

\* the offset of the element at idx (counted from 0) in a contiguous tensor
RECURSIVE Ravel(_, _)
Ravel(shape, idx) ==
    IF shape = <<>> THEN 0
    ELSE Ravel(SubSeq(shape, 1, Len(shape) - 1), SubSeq(idx, 1, Len(idx) - 1))
            * shape[Len(shape)] + idx[Len(idx)]

\* the index (counted from 0) of the element at offset f
RECURSIVE Unravel(_, _)
Unravel(shape, f) ==
    IF shape = <<>> THEN <<>>
    ELSE Append(Unravel(SubSeq(shape, 1, Len(shape) - 1), f \div shape[Len(shape)]),
                f % shape[Len(shape)])

\* where Tensor.reshape(target) puts the element at idx: the offset is kept
ReshapeIndex(shape, target, idx) == Unravel(target, Ravel(shape, idx))

\* where Tensor.permute(dims) puts the element at idx
PermuteIndex(idx, dims) ==
    [n \in 1..Len(dims) |-> idx[CHOOSE m \in 1..Len(dims) : dims[n] = m - 1]]

\* x.reshape(batch_size, height * width, -1) on x of size (B, F, h, w)
flatten_index(shape, idx) ==
    ReshapeIndex(shape, <<shape[1], shape[3] * shape[4], shape[2]>>, idx)

\* output.reshape(batch_size, height, width, self.embed_size).permute(0, 3, 1, 2)
unflatten_index(shape, tok) ==
    PermuteIndex(ReshapeIndex(<<shape[1], shape[3] * shape[4], shape[2]>>,
                              <<shape[1], shape[3], shape[4], shape[2]>>, tok),
                 <<0, 3, 1, 2>>)

\* an element (b, c, i, j) of a feature map of size (B, F, h, w)
InitReshape ==
    /\ built = None
    /\ ctor = NoCtor
    /\ pc = "feature_map"
    /\ x \in {e \in [shape : (1..MaxBatch) \X (1..MaxAttnEmbed) \X (1..MaxTokensSide) \X (1..MaxTokensSide),
                     idx   : (0..(MaxBatch - 1)) \X (0..(MaxAttnEmbed - 1))
                               \X (0..(MaxTokensSide - 1)) \X (0..(MaxTokensSide - 1))] :
                \A n \in 1..4 : e.idx[n] < e.shape[n]}
    /\ loc = <<>>
    /\ out = <<>>

\* the element is followed into the sequence
Flatten ==
    /\ pc = "feature_map"
    /\ loc' = flatten_index(x.shape, x.idx)
    /\ pc' = "sequence"
    /\ UNCHANGED <<built, ctor, x, out>>

\* the token component at the same place is followed into the output
Unflatten ==
    /\ pc = "sequence"
    /\ out' = unflatten_index(x.shape, loc)
    /\ pc' = "output"
    /\ UNCHANGED <<built, ctor, x, loc>>

NextReshape ==
    \/ Flatten
    \/ Unflatten

SpecReshape == InitReshape /\ [][NextReshape]_vars

\* ------------------------------------ the final convolution and the sigmoid

\* a float: NaN, or the number v
Num(v) == [nan |-> FALSE, v |-> v]

NaN == [nan |-> TRUE, v |-> 0]

\* 1.0 in units of 2^-24, the spacing of float32 in [0.5, 1)
One == 2 ^ 24

\* round(2^24 / (1 + e^-z)) for z = 0..17, the float32 nearest to the logistic
\* function of z; it is 2^24, that is 1.0, from z = 18 on
SigmoidTable ==
    <<8388608, 12265128, 14777323, 15981542, 16475457, 16664929, 16735732, 16761931,
      16771590, 16775146, 16776454, 16776936, 16777113, 16777178, 16777202, 16777211,
      16777214, 16777215>>

\* a float32 result: units of 2^-24, rounded to that grid; tiny when the
\* float is not zero but below half a unit
F32(units, tiny) == [nan |-> FALSE, units |-> units, tiny |-> tiny]

F32NaN == [nan |-> TRUE, units |-> 0, tiny |-> FALSE]

\* a variant of sigmoid: the squash of the Denoiser, tanh, saturated
tanh_squash(z) ==
    IF z.nan THEN {F32NaN}
    ELSE IF z.v > 0 THEN {F32(One, FALSE)}
    ELSE IF z.v < 0 THEN {F32(0 - One, FALSE)}
    ELSE {F32(0, FALSE)}

\* torch.sigmoid in float32, the results a build can give for z:
\*   z >= 18: 1 - sigmoid(z) is below half a unit, the result is 1.0;
\*   z = 17: 1.0 when computed as 1 / (1 + exp(-z)), else 1 - 2^-24;
\*   z <= -104: sigmoid(z) is below half the least subnormal, the result is 0.0;
\*   -104 < z <= -89: 0.0 when exp(-z) overflows to inf, else a subnormal
sigmoid(z) ==
    IF z.nan THEN {F32NaN}
    ELSE IF z.v >= 18 THEN {F32(One, FALSE)}
    ELSE IF z.v = 17 THEN {F32(One, FALSE), F32(SigmoidTable[18], FALSE)}
    ELSE IF z.v >= 0 THEN {F32(SigmoidTable[z.v + 1], FALSE)}
    ELSE IF z.v >= 0 - 17 THEN {F32(One - SigmoidTable[1 - z.v], FALSE)}
    ELSE IF z.v > 0 - 89 THEN {F32(0, TRUE)}
    ELSE IF z.v > 0 - 104 THEN {F32(0, TRUE), F32(0, FALSE)}
    ELSE {F32(0, FALSE)}

\* one element of self.final_conv(combined): the bias and, per input channel,
\* the weight that meets the channel's value
final_conv(d, w, bias) ==
    IF bias.nan THEN NaN
    ELSE Num(bias.v + w[1] * d[1] + w[2] * d[2] + w[3] * d[3])

WeightLevels == {0 - MaxWeight, 0 - 1, 0, 1, MaxWeight}

BiasLevels == {Num(0 - MaxBias), Num(0), Num(MaxBias), NaN}

\* the values tanh gives the three Denoiser outputs at one pixel
TanhLevels == {0 - 1, 0, 1}

\* the three denoised values at one pixel, and a parameter assignment
InitFuse ==
    /\ built = None
    /\ ctor = NoCtor
    /\ pc = "combined"
    /\ x \in [d : TanhLevels \X TanhLevels \X TanhLevels,
              w : WeightLevels \X WeightLevels \X WeightLevels,
              bias : BiasLevels]
    /\ loc = NaN
    /\ out = F32NaN

\* output = self.final_conv(combined)
FinalConv ==
    /\ pc = "combined"
    /\ loc' = final_conv(x.d, x.w, x.bias)
    /\ pc' = "output"
    /\ UNCHANGED <<built, ctor, x, out>>

\* return torch.sigmoid(output)
Sigmoid ==
    /\ pc = "output"
    /\ \E r \in sigmoid(loc) : out' = r
    /\ pc' = "squashed"
    /\ UNCHANGED <<built, ctor, x, loc>>

NextFuse ==
    \/ FinalConv
    \/ Sigmoid

SpecFuse == InitFuse /\ [][NextFuse]_vars

\* ------------------------------------------------------------- properties

ValidSide(n) == n > 0 /\ n % 8 = 0

\* the tensors a Denoiser binds on the channel that branch k is given
BranchTrace(k) == Denoiser_trace(BranchModule(built, k), BranchInput(loc, k))

\* C1: a GammaUnet called on an input of shape (B,3,H,W), H and W multiples
\* of 8, returns a tensor of that shape; on the way each stride-2 convolution
\* halves H and W, each upsampling doubles them, and every skip addition adds
\* two tensors of the same shape.
C1_ShapePreserved ==
    /\ (pc = "returned" /\ built.cls = "GammaUnet" /\ x.shape[2] = 3
            /\ ValidSide(x.shape[3]) /\ ValidSide(x.shape[4]))
         => (out.ok /\ out.shape = x.shape)
    /\ (pc = "denoise" /\ ValidSide(x.shape[3]) /\ ValidSide(x.shape[4]))
         => \A k \in {"y", "cb", "cr"} :
              \E tr \in {BranchTrace(k)} :
                /\ tr.output.ok
                /\ tr.output.shape = <<x.shape[1], 1, x.shape[3], x.shape[4]>>
                /\ \A n \in {3, 4} :
                     /\ tr.x1.shape[n] = x.shape[n]
                     /\ 2 * tr.x2.shape[n] = tr.x1.shape[n]
                     /\ 2 * tr.x3.shape[n] = tr.x2.shape[n]
                     /\ 2 * tr.x4.shape[n] = tr.x3.shape[n]
                     /\ tr.up4.shape[n] = 2 * tr.bottleneck.shape[n]
                     /\ tr.up3.shape[n] = 2 * tr.up4.shape[n]
                     /\ tr.up2.shape[n] = 2 * tr.up3.shape[n]
                /\ tr.bottleneck.shape = tr.x4.shape
                /\ tr.up4.shape = tr.x3.shape
                /\ tr.up3.shape = tr.x2.shape
                /\ tr.up2.shape = tr.x1.shape

\* C1, its case: a batch of two 16 x 8 images has come back with its own shape
C1_Witness ==
    /\ pc = "returned"
    /\ x.shape = <<2, 3, 16, 8>>
    /\ out.ok
    /\ out.shape = <<2, 3, 16, 8>>

\* C2 as stated: every output element lies strictly inside (0,1), the sigmoid
\* never gives exactly 0 or exactly 1.
C2_OpenInterval ==
    (pc = "squashed" /\ ~loc.nan)
        => /\ ~out.nan
           /\ (0 < out.units \/ out.tiny)
           /\ out.units < One

\* C2 as amended: every output element whose pre-activation is not NaN lies
\* in the closed interval [0,1]; it is strictly inside while the
\* pre-activation lies in -88..16, it is exactly 1.0 from 18 on and exactly 0.0
\* from -104 down.
C2_ClosedInterval ==
    (pc = "squashed" /\ ~loc.nan)
        => /\ ~out.nan
           /\ 0 <= out.units /\ out.units <= One
           /\ (0 - 88 <= loc.v /\ loc.v <= 16)
                => ((0 < out.units \/ out.tiny) /\ out.units < One)
           /\ loc.v >= 18 => out.units = One
           /\ loc.v <= 0 - 104 => (out.units = 0 /\ ~out.tiny)

\* C2, its case: a finite pre-activation whose sigmoid is exactly 1.0
C2_Witness ==
    /\ pc = "squashed"
    /\ ~loc.nan
    /\ loc.v = MaxBias
    /\ out.units = One

\* C3: a constructor fails exactly when the embed size (filter count) is not
\* a multiple of the head count, with the assertion of
\* MultiHeadSelfAttention.__init__ and with no object obtained; an object that
\* was obtained does not fail at its first forward call.
C3_FailsAtConstruction ==
    /\ ctor.cls # ""
         => /\ ctor.ok <=> (ctor.embed_size % ctor.num_heads = 0)
            /\ ctor.ok <=> (built # None)
            /\ ~ctor.ok => ctor.err = "AssertionError"
            /\ ctor.cls \in {"Denoiser", "GammaUnet"} => ctor.num_heads = 4
    /\ built # None => (built.cls = ctor.cls /\ ctor.ok)
    /\ pc = "returned" => (out.ok /\ out.shape = x.shape)

\* C3, its case: MultiHeadSelfAttention(33, 4) was tried and no object exists
C3_Witness ==
    /\ ctor.cls = "MultiHeadSelfAttention"
    /\ ctor.embed_size = 33
    /\ ctor.num_heads = 4
    /\ ~ctor.ok
    /\ built = None

\* C4 as stated: a Denoiser (kernel size 3) called on a single-channel input
\* whose height or width is not a multiple of 8 raises a shape mismatch at one
\* of the skip additions and returns nothing.
C4_MisalignedInputRaises ==
    (pc = "returned" /\ built.cls = "Denoiser" /\ built.kernel_size = DefaultKernel
        /\ x.shape[2] = 1 /\ (~ValidSide(x.shape[3]) \/ ~ValidSide(x.shape[4])))
        => /\ ~out.ok
           /\ out.err = "RuntimeError"
           /\ out.at \in {"x + x3", "x + x2", "x + x1"}

\* C5 as stated, for the inputs whose height and width are multiples of 8 (no
\* other precondition of the call is broken): a GammaUnet called on an input
\* whose channel count is not 3 raises and returns nothing.
C5_ChannelCountRejected ==
    (pc = "returned" /\ built.cls = "GammaUnet" /\ x.shape[2] # 3
        /\ ValidSide(x.shape[3]) /\ ValidSide(x.shape[4]))
        => ~out.ok

\* C6: the gamma correction is applied to channel 0 and channel 1 of the
\* converter's output and to nothing else: channel 2 reaches denoiser_cr with
\* the values the converter gave it, and each Denoiser is given its own channel.
C6_GammaOnYAndCbOnly ==
    pc = "denoise"
        => /\ built.gamma = <<2, 5>>
           /\ loc.ycbcr = rgb_to_oklab(x)
           /\ loc.y.val = <<GammaValue(loc.ycbcr.val[1], built.gamma)>>
           /\ loc.cb.val = <<GammaValue(loc.ycbcr.val[2], built.gamma)>>
           /\ loc.cr.val = <<loc.ycbcr.val[3]>>
           /\ IsSet(loc.y_denoised)
                => loc.y_denoised.val[1].input = <<GammaValue(loc.ycbcr.val[1], built.gamma)>>
           /\ IsSet(loc.cb_denoised)
                => loc.cb_denoised.val[1].input = <<GammaValue(loc.ycbcr.val[2], built.gamma)>>
           /\ IsSet(loc.cr_denoised)
                => loc.cr_denoised.val[1].input = <<loc.ycbcr.val[3]>>

\* C6, its case: denoiser_cr has run on a negative value, which the gamma
\* correction would have changed
C6_Witness ==
    /\ pc = "denoise"
    /\ x.shape = <<1, 3, 8, 8>>
    /\ IsSet(loc.cr_denoised)
    /\ loc.ycbcr.val[3] < 0
    /\ loc.cr_denoised.val[1].input = <<loc.ycbcr.val[3]>>
    /\ GammaValue(loc.ycbcr.val[3], built.gamma) # loc.ycbcr.val[3]

\* the channels of the input as the source text prepares them
ChannelsOf(image) == forward_channels(built, rgb_to_oklab(image))

\* C7: whatever the order in which the three branches are evaluated, each
\* branch output is the output of its own Denoiser on its own channel, and the
\* call returns what the source text, read top to bottom, computes from the
\* parameters and the input.
C7_OrderIndependent ==
    /\ pc = "denoise"
         => /\ IsSet(loc.y_denoised)
                 => loc.y_denoised = Denoiser_forward(built.denoiser_y, ChannelsOf(x).y)
            /\ IsSet(loc.cb_denoised)
                 => loc.cb_denoised = Denoiser_forward(built.denoiser_cb, ChannelsOf(x).cb)
            /\ IsSet(loc.cr_denoised)
                 => loc.cr_denoised = Denoiser_forward(built.denoiser_cr, ChannelsOf(x).cr)
    /\ pc = "returned" => out = GammaUnet_forward(built, x)

\* C7, its case: on an 8 x 8 image denoiser_cr and denoiser_cb have run before
\* denoiser_y
C7_Witness ==
    /\ pc = "denoise"
    /\ x.shape = <<1, 3, 8, 8>>
    /\ IsSet(loc.cr_denoised)
    /\ IsSet(loc.cb_denoised)
    /\ ~IsSet(loc.y_denoised)

\* C8: no step of a forward call, one that raises included, changes the
\* module (its parameters, its gamma), and outside a call no local of forward
\* is bound.
C8_ForwardWritesNothing ==
    /\ [][(pc # "idle" \/ pc' # "idle") => built' = built]_vars
    /\ [](pc \in {"idle", "returned"} => loc = EmptyFrame)

\* C8, its case: a call on a loaded checkpoint has raised at a skip addition
\* and the parameters are the checkpoint's
C8_Witness ==
    /\ pc = "returned"
    /\ ~out.ok
    /\ out.at = "x + x2"
    /\ built.params = 1
    /\ built.denoiser_cr.bottleneck.params = 1
    /\ loc = EmptyFrame

\* C9 as stated: token i*w+j of the sequence holds the F channel values of
\* position (i,j), and the reshape back returns every element to its own
\* (batch, channel, row, column).
C9_FlattenKeepsPositions ==
    /\ pc \in {"sequence", "output"}
         => loc = <<x.idx[1], x.idx[3] * x.shape[4] + x.idx[4], x.idx[2]>>
    /\ pc = "output" => out = x.idx

\* C10 as stated: a Denoiser of any odd kernel size in 1..7 returns, for a
\* single-channel input with H and W multiples of 8, a tensor of the input's
\* shape.
C10_AnyKernelKeepsShape ==
    (pc = "returned" /\ built.cls = "Denoiser" /\ built.kernel_size \in {1, 3, 5, 7}
        /\ x.shape[2] = 1 /\ ValidSide(x.shape[3]) /\ ValidSide(x.shape[4]))
        => (out.ok /\ out.shape = x.shape)

====
